---- MODULE Spec2Model ----
(***************************************************************************)
(* Model of src/Home.py: a Streamlit page that asks a completion service   *)
(* for exam questions and worksheets and keeps the last results in         *)
(* st.session_state.                                                       *)
(*                                                                         *)
(* A text is a sequence of one-character strings (for JSON texts, of       *)
(* lexical tokens).  A Python value is a record of its type and payload.   *)
(*                                                                         *)
(* Streamlit: every interaction reruns the whole file top to bottom, so a  *)
(* script run is one action.  In a run at most one button returns True.    *)
(* st.session_state outlives the run; every other name is rebuilt.  An     *)
(* uncaught exception ends the run where it is raised: what the run stored *)
(* before stays stored, and the widgets below that line are not on the     *)
(* page until a later run reaches them.  The completion service is the     *)
(* environment: it may reply with any text.                                *)
(*                                                                         *)
(* Home.py indents lines 33-96 of generate_exam_question by three columns  *)
(* and lines 98-112 by four, which Python rejects when it compiles the     *)
(* file.  The model reads lines 33-112 as the one body of the function,    *)
(* as the layout intends; with the file as it is, no line of it runs.      *)
(* The second st.set_page_config (line 375) is taken to return, as it      *)
(* does in the Streamlit releases that allow the call more than once.      *)
(***************************************************************************)
EXTENDS Integers, Sequences, FiniteSets, TLC

VARIABLES
    exam_question,      \* st.session_state.exam_question
    questions,          \* st.session_state.questions
    difficulty,         \* st.session_state.difficulty
    similar_questions,  \* st.session_state.similar_questions
    exam_topic,         \* value of the first selectbox (line 124)
    marks,              \* value of the "Total marks:" selectbox
    topic,              \* value of the second selectbox (line 396)
    subtopics,          \* value of the multiselect
    calls,              \* completion requests issued during the last run
    exception,          \* how the last run ended
    displayed,          \* buttons the last run put on the page
    produced_by,        \* history: the handler that stored `questions`
    fn_name,            \* function harness: the function applied
    fn_text,            \* function harness: the completion text
    fn_doc,             \* function harness: the value the text serialises
    fn_result           \* function harness: what the function did

vars == <<exam_question, questions, difficulty, similar_questions, exam_topic,
          marks, topic, subtopics, calls, exception, displayed,
          produced_by, fn_name, fn_text, fn_doc, fn_result>>

session_vars == <<exam_question, questions, difficulty, similar_questions, exam_topic,
                  marks, topic, subtopics, calls, exception, displayed,
                  produced_by>>

\* ---------------------------------------------------------------- bounds
\* longest completion text the line and free-text functions are applied to
MaxTextLen == 4

\* ------------------------------------------------------- Python strings
\* the characters str.strip() removes (those the texts here use)
Whitespace == {" ", "\t", "\n", "\r", "\f"}

RECURSIVE lstrip(_)
lstrip(s) ==
    IF s = << >> THEN << >>
    ELSE IF Head(s) \in Whitespace THEN lstrip(Tail(s)) ELSE s

RECURSIVE rstrip(_)
rstrip(s) ==
    IF s = << >> THEN << >>
    ELSE IF s[Len(s)] \in Whitespace THEN rstrip(SubSeq(s, 1, Len(s) - 1)) ELSE s

\* str.strip()
strip(s) == rstrip(lstrip(s))

RECURSIVE split(_, _)
\* str.split(sep): always at least one piece
split(s, sep) ==
    IF \A i \in 1..Len(s) : s[i] # sep THEN << s >>
    ELSE LET i == CHOOSE k \in 1..Len(s) :
                      s[k] = sep /\ \A j \in 1..(k - 1) : s[j] # sep
         IN  << SubSeq(s, 1, i - 1) >> \o split(SubSeq(s, i + 1, Len(s)), sep)

\* the filter written `if q`: a whitespace-only line is kept, as ""
StripLinesKeepingBlank(text) ==
    LET kept == SelectSeq(split(text, "\n"), LAMBDA q : q # << >>)
    IN  [i \in 1..Len(kept) |-> strip(kept[i])]

\* [q.strip() for q in text.split("\n") if q.strip()]
StripNonEmptyLines(text) ==
    LET kept == SelectSeq(split(text, "\n"), LAMBDA q : strip(q) # << >>)
    IN  [i \in 1..Len(kept) |-> strip(kept[i])]

\* ", ".join(subtopics)
RECURSIVE join(_)
join(xs) ==
    IF xs = << >> THEN << >>
    ELSE IF Len(xs) = 1 THEN << xs[1] >>
    ELSE << xs[1], ", " >> \o join(Tail(xs))

\* ------------------------------------------------------ function results
Return(reqs, v) == [kind |-> "return", calls |-> reqs, value |-> v]
Raise(reqs, exc, msg) == [kind |-> "raise", calls |-> reqs, value |-> [exc |-> exc, msg |-> msg]]

\* response.choices[0].message.content of the one request sent
call_openai(request, content) == Return(<< request >>, content)

\* ------------------------------------------------- worksheet generators
generate_worksheet(topic_, subtopics_, difficulty_, content) ==
    LET chosen == join(subtopics_)
        request == [fn |-> "generate_worksheet", topic |-> topic_,
                    subtopics |-> subtopics_, chosen |-> chosen,
                    difficulty |-> difficulty_]
        text == call_openai(request, content)
    IN  Return(text.calls, StripNonEmptyLines(text.value))

generate_balanced_worksheet(topic_, subtopics_, content) ==
    LET chosen == join(subtopics_)
        request == [fn |-> "generate_balanced_worksheet", topic |-> topic_,
                    subtopics |-> subtopics_, chosen |-> chosen]
        text == call_openai(request, content)
    IN  Return(text.calls, StripNonEmptyLines(text.value))

generate_exam_style_worksheet(topic_, subtopics_, content) ==
    LET chosen == join(subtopics_)
        request == [fn |-> "generate_exam_style_worksheet", topic |-> topic_,
                    subtopics |-> subtopics_, chosen |-> chosen]
        text == call_openai(request, content)
    IN  Return(text.calls, StripNonEmptyLines(text.value))

\* the reply trimmed before it is returned
generate_answer_trimmed(question, topic_, difficulty_, content) ==
    LET request == [fn |-> "generate_answer", topic |-> topic_,
                    question |-> question, difficulty |-> difficulty_]
    IN  Return(<< request >>, strip(content))

generate_answer(question, topic_, difficulty_, content) ==
    LET request == [fn |-> "generate_answer", topic |-> topic_,
                    question |-> question, difficulty |-> difficulty_]
    IN  call_openai(request, content)

generate_similar_question(question, topic_, difficulty_, content) ==
    LET request == [fn |-> "generate_similar_question", topic |-> topic_,
                    question |-> question]
    IN  call_openai(request, content)

\* ------------------------------------------------------- Python values
\* A value is a record of its type name t and one payload field per type
\* (n of an int, s of a str, xs of a list, items of a dict), the payloads of
\* the other types left empty.  The items of a dict are [k, v] in insertion
\* order, keys unique.
PyValue(t, n, s, xs, items) == [t |-> t, n |-> n, s |-> s, xs |-> xs, items |-> items]
None == PyValue("NoneType", 0, "", << >>, << >>)
PyInt(n) == PyValue("int", n, "", << >>, << >>)
PyStr(s) == PyValue("str", 0, s, << >>, << >>)
PyList(xs) == PyValue("list", 0, "", xs, << >>)
PyDict(items) == PyValue("dict", 0, "", << >>, items)

HasKey(d, key) == \E i \in 1..Len(d.items) : d.items[i].k = key
\* d[key], for a key d has
Get(d, key) == d.items[CHOOSE i \in 1..Len(d.items) : d.items[i].k = key].v

\* d[key] = value on the items of a dict: a present key keeps its place
SetItem(items, key, value) ==
    IF \E i \in 1..Len(items) : items[i].k = key
    THEN [i \in 1..Len(items) |->
             IF items[i].k = key THEN [k |-> key, v |-> value] ELSE items[i]]
    ELSE Append(items, [k |-> key, v |-> value])

RECURSIVE DictOfPairs(_, _)
\* dict(pairs), from the items built so far
DictOfPairs(pairs, items) ==
    IF pairs = << >> THEN PyDict(items)
    ELSE DictOfPairs(Tail(pairs), SetItem(items, Head(pairs).k, Head(pairs).v))

\* bool(value), as `if st.session_state.exam_question:` takes it
Truthy(x) ==
    CASE x.t = "NoneType" -> FALSE
      [] x.t = "int" -> x.n # 0
      [] x.t = "str" -> x.s # ""
      [] x.t = "list" -> x.xs # << >>
      [] x.t = "dict" -> x.items # << >>

\* ------------------------------------------------------------ JSON text
\* A JSON text is a sequence of lexical tokens: the punctuators, "null",
\* whitespace characters, string literals (with their quotes) and number
\* literals.  Anything else is a token no JSON value starts with.
Strings == {"total_marks", "topic", "difficulty", "parts", "label", "marks",
            "question", "solution", "note", "Algebra", "Higher Level",
            "a", "b", "x^2=4", "x=\\pm2"}
Numbers == {0, 10, 15, 25, 50}

Quote(s) == "\"" \o s \o "\""
StringLiterals == {Quote(s) : s \in Strings}
NumberLiterals == {ToString(n) : n \in Numbers}
\* the value a literal denotes
Unquoted == [tok \in StringLiterals |-> CHOOSE s \in Strings : Quote(s) = tok]
Denoted == [tok \in NumberLiterals |-> CHOOSE n \in Numbers : ToString(n) = tok]
StringOf(tok) == Unquoted[tok]
NumberOf(tok) == Denoted[tok]

JsonWhitespace == {" ", "\t", "\n", "\r"}

RECURSIVE skip_whitespace(_, _)
\* WHITESPACE.match(s, idx).end()
skip_whitespace(s, idx) ==
    IF idx <= Len(s) /\ s[idx] \in JsonWhitespace THEN skip_whitespace(s, idx + 1)
    ELSE idx

Parsed(value, end) == [ok |-> TRUE, val |-> value, end |-> end]
DecodeError == [ok |-> FALSE, val |-> None, end |-> 0]

RECURSIVE scan_once(_, _)
RECURSIVE JSONObject(_, _, _)
RECURSIVE JSONArray(_, _, _)

\* json.scanner: the value that starts at s[idx]
scan_once(s, idx) ==
    IF idx > Len(s) THEN DecodeError
    ELSE LET nextchar == s[idx] IN
         CASE nextchar \in StringLiterals -> Parsed(PyStr(StringOf(nextchar)), idx + 1)
           [] nextchar \in NumberLiterals -> Parsed(PyInt(NumberOf(nextchar)), idx + 1)
           [] nextchar = "null" -> Parsed(None, idx + 1)
           [] nextchar = "{" ->
                LET end == skip_whitespace(s, idx + 1) IN
                IF end <= Len(s) /\ s[end] = "}" THEN Parsed(PyDict(<< >>), end + 1)
                ELSE JSONObject(s, end, << >>)
           [] nextchar = "[" ->
                LET end == skip_whitespace(s, idx + 1) IN
                IF end <= Len(s) /\ s[end] = "]" THEN Parsed(PyList(<< >>), end + 1)
                ELSE JSONArray(s, end, << >>)
           [] OTHER -> DecodeError

\* json.decoder.JSONObject from a property name at s[idx], `pairs` read so far
JSONObject(s, idx, pairs) ==
    IF idx > Len(s) \/ s[idx] \notin StringLiterals THEN DecodeError
    ELSE LET key == StringOf(s[idx])
             colon == skip_whitespace(s, idx + 1)
         IN  IF colon > Len(s) \/ s[colon] # ":" THEN DecodeError
             ELSE LET r == scan_once(s, skip_whitespace(s, colon + 1)) IN
                  IF ~r.ok THEN DecodeError
                  ELSE LET end == skip_whitespace(s, r.end)
                           more == Append(pairs, [k |-> key, v |-> r.val])
                       IN  IF end > Len(s) THEN DecodeError
                           ELSE IF s[end] = "}" THEN Parsed(DictOfPairs(more, << >>), end + 1)
                           ELSE IF s[end] # "," THEN DecodeError
                           ELSE JSONObject(s, skip_whitespace(s, end + 1), more)

\* json.decoder.JSONArray from an element at s[idx], `values` read so far
JSONArray(s, idx, values) ==
    LET r == scan_once(s, idx) IN
    IF ~r.ok THEN DecodeError
    ELSE LET end == skip_whitespace(s, r.end)
             more == Append(values, r.val)
         IN  IF end > Len(s) THEN DecodeError
             ELSE IF s[end] = "]" THEN Parsed(PyList(more), end + 1)
             ELSE IF s[end] # "," THEN DecodeError
             ELSE JSONArray(s, skip_whitespace(s, end + 1), more)

\* json.loads(s): one value, whitespace around it, nothing after it
json_loads(s) ==
    LET r == scan_once(s, skip_whitespace(s, 1)) IN
    IF r.ok /\ skip_whitespace(s, r.end) = Len(s) + 1 THEN r ELSE DecodeError

\* ------------------------------------------------ exam question generator
InvalidJsonPrefix == "Invalid JSON returned:\n"

\* a second request made when the first reply does not parse
generate_exam_question_retrying(topic_, marks_, content) ==
    LET request == [fn |-> "generate_exam_question", topic |-> topic_, marks |-> marks_]
        raw == strip(content)
        loaded == json_loads(raw)
    IN  IF loaded.ok THEN Return(<< request >>, loaded.val)
        ELSE Raise(<< request, request >>, "ValueError", << InvalidJsonPrefix >> \o raw)

\* the error raised without the reply in its message
generate_exam_question_without_text(topic_, marks_, content) ==
    LET request == [fn |-> "generate_exam_question", topic |-> topic_, marks |-> marks_]
        raw == strip(content)
        loaded == json_loads(raw)
    IN  IF loaded.ok THEN Return(<< request >>, loaded.val)
        ELSE Raise(<< request >>, "ValueError", << InvalidJsonPrefix >>)

\* an object with a field outside the schema refused
generate_exam_question_strict(topic_, marks_, content) ==
    LET request == [fn |-> "generate_exam_question", topic |-> topic_, marks |-> marks_]
        raw == strip(content)
        loaded == json_loads(raw)
        known == {"total_marks", "topic", "difficulty", "parts"}
    IN  IF /\ loaded.ok
           /\ loaded.val.t = "dict" =>
                  \A i \in 1..Len(loaded.val.items) : loaded.val.items[i].k \in known
        THEN Return(<< request >>, loaded.val)
        ELSE Raise(<< request >>, "ValueError", << InvalidJsonPrefix >> \o raw)

generate_exam_question(topic_, marks_, content) ==
    LET request == [fn |-> "generate_exam_question", topic |-> topic_, marks |-> marks_]
        raw == strip(content)
        loaded == json_loads(raw)
    IN  IF loaded.ok THEN Return(<< request >>, loaded.val)
        ELSE Raise(<< request >>, "ValueError", << InvalidJsonPrefix >> \o raw)

\* part['label'], part['marks'], part[text_key] in this order: the exception
\* the first failing subscript raises, or "none"
PartException(part, keys) ==
    IF part.t # "dict" THEN "TypeError"
    ELSE IF \E i \in 1..Len(keys) : ~HasKey(part, keys[i]) THEN "KeyError"
    ELSE "none"

\* for part in data["parts"]: <subscripts of part by keys>
IterateParts(data, keys) ==
    IF data.t # "dict" THEN "TypeError"
    ELSE IF ~HasKey(data, "parts") THEN "KeyError"
    ELSE LET parts == Get(data, "parts") IN
         CASE parts.t = "list" ->
                IF \A i \in 1..Len(parts.xs) : PartException(parts.xs[i], keys) = "none"
                THEN "none"
                ELSE PartException(
                         parts.xs[CHOOSE i \in 1..Len(parts.xs) :
                                     /\ PartException(parts.xs[i], keys) # "none"
                                     /\ \A j \in 1..(i - 1) :
                                            PartException(parts.xs[j], keys) = "none"],
                         keys)
           [] parts.t = "dict" -> IF parts.items = << >> THEN "none" ELSE "TypeError"
           [] parts.t = "str" -> IF parts.s = "" THEN "none" ELSE "TypeError"
           [] OTHER -> "TypeError"

\* the exception render_question(data) ends with, or "none"
render_question(data) == IterateParts(data, << "label", "marks", "question" >>)

\* the exception render_solution(data) ends with, or "none"
render_solution(data) == IterateParts(data, << "label", "solution" >>)

\* --------------------------------------------------------- page constants
EXAM_TOPICS == << "Algebra", "Calculus", "Trigonometry", "Complex Numbers",
                  "Probability", "Functions", "Geometry", "Sequences & Series",
                  "Financial Maths" >>
MARKS == << 25, 50, 75 >>
TOPICS == << "Probability", "Trigonometry", "Algebra", "Circle", "Calculus" >>

SUBTOPICS(t) ==
    CASE t = "Probability" ->
            << "Combined events", "Conditional probability", "Expected value",
               "Permutations and combinations", "Binomial distribution",
               "Bernoulli Trials", "Normal Distribution" >>
      [] t = "Trigonometry" ->
            << "Trig identities", "Trig equations", "Graphs", "Radians",
               "Sine rule / Cosine rule", "Unit Circle" >>
      [] t = "Algebra" ->
            << "Quadratics", "Functions", "Logs", "Sequences & series", "Inequalities" >>
      [] t = "Circle" ->
            << "Center (0,0) and radius r", "Center (h,k) and radius r",
               "Equations of the form x^2 +y^2 + 2gx + 2gy + c = 0",
               "Points outside, inside or on the Circle",
               "Intersection of a line and circle" >>
      [] t = "Calculus" ->
            << "Differentiation", "Integration", "Rates of change",
               "Area under curves", "Product/Quotient/Chain rule" >>
      [] OTHER -> << >>

\* ---------------------------------------------------- texts of the service
\* json.dumps(x) with the given separators; the completion service writes
\* its JSON replies this way
Compact == [item |-> << "," >>, key |-> << ":" >>, open |-> << >>, close |-> << >>]
Default == [item |-> << ",", " " >>, key |-> << ":", " " >>, open |-> << >>, close |-> << >>]
Pretty == [item |-> << ",", "\n", " " >>, key |-> << ":", " " >>,
           open |-> << "\n", " " >>, close |-> << "\n" >>]
Styles == {Compact, Default, Pretty}

RECURSIVE json_dumps(_, _)
RECURSIVE DumpElements(_, _)
RECURSIVE DumpItems(_, _)

json_dumps(x, st) ==
    CASE x.t = "NoneType" -> << "null" >>
      [] x.t = "int" -> << ToString(x.n) >>
      [] x.t = "str" -> << Quote(x.s) >>
      [] x.t = "list" ->
            IF x.xs = << >> THEN << "[", "]" >>
            ELSE << "[" >> \o st.open \o DumpElements(x.xs, st) \o st.close \o << "]" >>
      [] x.t = "dict" ->
            IF x.items = << >> THEN << "{", "}" >>
            ELSE << "{" >> \o st.open \o DumpItems(x.items, st) \o st.close \o << "}" >>

DumpElements(xs, st) ==
    IF Len(xs) = 1 THEN json_dumps(xs[1], st)
    ELSE json_dumps(xs[1], st) \o st.item \o DumpElements(Tail(xs), st)

DumpItems(items, st) ==
    LET one == << Quote(items[1].k) >> \o st.key \o json_dumps(items[1].v, st) IN
    IF Len(items) = 1 THEN one ELSE one \o st.item \o DumpItems(Tail(items), st)

Item(key, value) == [k |-> key, v |-> value]

\* the structured questions the service may be asked to write
MaxParts == 2
Labels == {"a", "b"}
PartMarks == {10, 15}
Part(label, m) ==
    PyDict(<< Item("label", PyStr(label)), Item("marks", PyInt(m)),
              Item("question", PyStr("x^2=4")), Item("solution", PyStr("x=\\pm2")) >>)
PartSet == {Part(l, m) : l \in Labels, m \in PartMarks}
PartLists == UNION {[1..k -> PartSet] : k \in 0..MaxParts}
Question(total, parts) ==
    << Item("total_marks", PyInt(total)), Item("topic", PyStr("Algebra")),
       Item("difficulty", PyStr("Higher Level")), Item("parts", PyList(parts)) >>
PlainQuestions == {Question(total, parts) : total \in {25, 50}, parts \in PartLists}
Note == Item("note", PyStr("a"))
StructuredQuestions ==
    {PyDict(q) : q \in PlainQuestions}
        \cup {PyDict(<< Note >> \o q) : q \in PlainQuestions}
        \cup {PyDict(q \o << Note >>) : q \in PlainQuestions}

Without(items, key) == SelectSeq(items, LAMBDA it : it.k # key)
SampleQuestion == Question(25, << Part("a", 10), Part("b", 15) >>)
\* JSON values that are no structured question
OtherDocuments ==
    {PyDict(Without(SampleQuestion, key)) :
         key \in {"total_marks", "topic", "difficulty", "parts"}}
        \cup {PyDict(SetItem(SampleQuestion, "parts", v)) :
                  v \in {PyInt(10), PyStr("a"), None, PyDict(<< >>)}}
        \cup {PyDict(<< >>), PyList(<< >>), PyList(<< PyInt(10), None >>),
               PyInt(25), PyInt(0), PyStr("a"), None}

\* texts that are no JSON value
Truncations(text) == {SubSeq(text, 1, k) : k \in 0..(Len(text) - 1)}
MalformedTexts ==
    Truncations(json_dumps(PyDict(SampleQuestion), Default))
        \cup { << "not", " ", "json" >>, << " " >>, << "\n", "not", " ", "json", "\n" >>,
                << "[", "10", ",", "]" >>, << "{", "}", " ", "{", "}" >>,
                << "{", Quote("parts"), "[", "]", "}" >>,
                << "{", Quote("parts"), ":", "[", "]", ",", "}" >>,
                << "{", "10", ":", "[", "]", "}" >>,
                << " ", "[", "10", "\n" >>, << "\f", "{", "}" >> }

\* whitespace the service may put around a reply
Paddings == { [lead |-> << >>, trail |-> << >>],
              [lead |-> << "\n" >>, trail |-> << >>],
              [lead |-> << " " >>, trail |-> << " ", "\n" >>] }
Pad(text, pad) == pad.lead \o text \o pad.trail

NotJson == PyValue("not JSON", 0, "", << >>, << >>)

\* (document, text) pairs: a text and the value it is the JSON text of
JsonReplies ==
    {[doc |-> d, text |-> Pad(json_dumps(d, st), pad)] :
         d \in StructuredQuestions \cup OtherDocuments, st \in Styles, pad \in Paddings}
        \cup {[doc |-> NotJson, text |-> t] : t \in MalformedTexts}

LineChars == {"a", "b", " ", "\t", "\n"}
LineTexts == UNION {[1..k -> LineChars] : k \in 0..MaxTextLen}

\* ------------------------------------------------------- session state
\* The page after its first run: nothing clicked, every key of
\* st.session_state set by the `not in st.session_state` branches.
NoException == [exc |-> "none", msg |-> << >>]
ExamWidgets == {"Choose a topic:", "Total marks:", "Generate Question"}
WorksheetButtons == {"Easy", "Medium", "Hard", "Random", "Balanced", "Exam Style"}
WorksheetWidgets == {"topic", "subtopics"} \cup WorksheetButtons

SessionInit ==
    /\ exam_question = None
    /\ questions = << >>
    /\ difficulty = PyList(<< >>)
    /\ similar_questions = << >>
    /\ exam_topic = EXAM_TOPICS[1]
    /\ marks = MARKS[1]
    /\ topic = TOPICS[1]
    /\ subtopics = << >>
    /\ calls = << >>
    /\ exception = NoException
    /\ displayed = ExamWidgets \cup WorksheetWidgets
    /\ produced_by = "none"

NoResult == [kind |-> "none", calls |-> << >>, value |-> << >>]

\* ------------------------------------------ the functions on their own
\* The line and free-text functions applied to every text up to MaxTextLen.
InitLines ==
    /\ SessionInit
    /\ fn_name = "none"
    /\ fn_text \in LineTexts
    /\ fn_doc = NotJson
    /\ fn_result = NoResult

Apply(name, result) ==
    /\ fn_name = "none"
    /\ fn_name' = name
    /\ fn_result' = result
    /\ UNCHANGED << fn_text, fn_doc, session_vars >>

CallGenerateWorksheet ==
    \E d \in {"Easy", "Medium", "Hard"} :
        Apply("generate_worksheet", generate_worksheet(topic, subtopics, d, fn_text))

CallGenerateBalancedWorksheet ==
    Apply("generate_balanced_worksheet",
          generate_balanced_worksheet(topic, subtopics, fn_text))

CallGenerateExamStyleWorksheet ==
    Apply("generate_exam_style_worksheet",
          generate_exam_style_worksheet(topic, subtopics, fn_text))

CallGenerateAnswer ==
    Apply("generate_answer", generate_answer(<< "a" >>, topic, PyStr("Easy"), fn_text))

CallGenerateSimilarQuestion ==
    Apply("generate_similar_question",
          generate_similar_question(<< "a" >>, topic, PyStr("Easy"), fn_text))

NextLines ==
    \/ CallGenerateWorksheet
    \/ CallGenerateBalancedWorksheet
    \/ CallGenerateExamStyleWorksheet
    \/ CallGenerateAnswer
    \/ CallGenerateSimilarQuestion

SpecLines == InitLines /\ [][NextLines]_vars

\* generate_exam_question applied to every reply of JsonReplies.
InitJson ==
    /\ SessionInit
    /\ fn_name = "none"
    /\ \E reply \in JsonReplies : fn_text = reply.text /\ fn_doc = reply.doc
    /\ fn_result = NoResult

CallGenerateExamQuestion ==
    \E m \in {MARKS[i] : i \in 1..Len(MARKS)} :
        Apply("generate_exam_question", generate_exam_question(exam_topic, m, fn_text))

NextJson == CallGenerateExamQuestion

SpecJson == InitJson /\ [][NextJson]_vars

\* ------------------------------------------------------- one script run
\* What the user may pick and what the service may reply, in the page model.
MaxChoice == 2       \* leading options of a topic selectbox the user picks among
MaxSubtopics == 1    \* leading options of the multiselect the user picks among
MaxLines == 1        \* most lines of a worksheet or free-text reply

Leading(options, n) == {options[i] : i \in {j \in 1..Len(options) : j <= n}}

Q1 == PyDict(Question(25, << Part("a", 10), Part("b", 15) >>))
ExamReplies ==
    { Pad(json_dumps(Q1, Compact), [lead |-> << "\n" >>, trail |-> << "\n" >>]),
      json_dumps(PyDict(Without(Question(25, << Part("a", 10) >>), "parts")), Default),
      << "null" >>,
      << "not", " ", "json" >>,
      << " ", "{", Quote("parts"), ":", "[", "\n" >> }
\* a reply of k numbered lines, a blank line after each
RECURSIVE ReplyLines(_)
ReplyLines(k) ==
    IF k = 0 THEN << >>
    ELSE ReplyLines(k - 1) \o << ToString(k), ".", " ", "a", " ", "\n", "\n" >>
TextReplies == {ReplyLines(k) : k \in 0..MaxLines}

\* The state a run works on: the session state, and what the run has done.
RunStart ==
    [exam_question |-> exam_question, questions |-> questions,
     difficulty |-> difficulty, produced_by |-> produced_by,
     calls |-> << >>, exception |-> NoException, displayed |-> {}]

Running(rs) == rs.exception.exc = "none"

\* the cached question dropped before the request is made
StoreExamQuestionAfterClearing(rs, result) ==
    IF result.kind = "raise"
    THEN [rs EXCEPT !.calls = rs.calls \o result.calls, !.exception = result.value,
                    !.exam_question = None]
    ELSE [rs EXCEPT !.calls = rs.calls \o result.calls, !.exam_question = result.value]

\* st.session_state.exam_question = generate_exam_question(topic, marks)
StoreExamQuestion(rs, result) ==
    IF result.kind = "raise"
    THEN [rs EXCEPT !.calls = rs.calls \o result.calls, !.exception = result.value]
    ELSE [rs EXCEPT !.calls = rs.calls \o result.calls, !.exam_question = result.value]

\* the run has put these widgets on the page
Show(rs, widgets) == [rs EXCEPT !.displayed = rs.displayed \cup widgets]

\* lines 121-165: the two selectboxes and Generate Question
GenerateQuestionButton(rs, clicked, w, content) ==
    IF clicked = "Generate Question"
    THEN StoreExamQuestion(Show(rs, ExamWidgets),
                           generate_exam_question(w.exam_topic, w.marks, content))
    ELSE Show(rs, ExamWidgets)

\* lines 167-171: More Like This, offered once a question is cached
ExamMoreLikeThisButton(rs, clicked, w, content) ==
    IF ~Running(rs) \/ rs.exam_question = None THEN rs
    ELSE IF clicked = "More Like This"
    THEN StoreExamQuestion(Show(rs, {"More Like This"}),
                           generate_exam_question(w.exam_topic, w.marks, content))
    ELSE Show(rs, {"More Like This"})

\* lines 174-178: the cached question and its solution
RenderSection(rs) ==
    IF Running(rs) /\ Truthy(rs.exam_question)
    THEN LET q == render_question(rs.exam_question)
             e == IF q # "none" THEN q ELSE render_solution(rs.exam_question)
         IN  IF e = "none" THEN rs
             ELSE [rs EXCEPT !.exception = [exc |-> e, msg |-> << >>]]
    ELSE rs

\* st.session_state.questions = <result of a worksheet generator>
StoreWorksheet(rs, result, mode) ==
    [rs EXCEPT !.calls = rs.calls \o result.calls, !.questions = result.value,
               !.produced_by = mode]

\* lines 396-459: topic, subtopics and the six worksheet buttons
WorksheetSection(rs, clicked, w, diff, content) ==
    IF ~Running(rs) THEN rs
    ELSE LET shown == Show(rs, WorksheetWidgets) IN
         CASE clicked \in {"Easy", "Medium", "Hard"} ->
                StoreWorksheet([shown EXCEPT !.difficulty = PyStr(clicked)],
                               generate_worksheet(w.topic, w.subtopics, clicked, content),
                               clicked)
           [] clicked = "Random" ->
                StoreWorksheet([shown EXCEPT !.difficulty = PyStr(diff)],
                               generate_worksheet(w.topic, w.subtopics, diff, content),
                               diff)
           [] clicked = "Balanced" ->
                StoreWorksheet(shown,
                               generate_balanced_worksheet(w.topic, w.subtopics, content),
                               "Balanced")
           [] clicked = "Exam Style" ->
                StoreWorksheet([shown EXCEPT !.difficulty = PyStr("Exam Style")],
                               generate_exam_style_worksheet(w.topic, w.subtopics, content),
                               "Exam Style")
           [] OTHER -> shown

AnswerKey(i) == "ans_" \o ToString(i)
MoreKey(i) == "more_" \o ToString(i)

\* the similar question appended to the worksheet it was asked from
DisplaySectionAppendingSimilar(rs, clicked, w, content) ==
    IF ~Running(rs) \/ rs.questions = << >> THEN rs
    ELSE LET n == Len(rs.questions)
             shown == [rs EXCEPT !.displayed = rs.displayed
                           \cup {AnswerKey(i) : i \in 0..(n - 1)}
                           \cup {MoreKey(i) : i \in 0..(n - 1)}]
         IN  IF \E i \in 0..(n - 1) : clicked = AnswerKey(i)
             THEN LET i == CHOOSE i \in 0..(n - 1) : clicked = AnswerKey(i)
                      ans == generate_answer(rs.questions[i + 1], w.topic, rs.difficulty, content)
                  IN  [shown EXCEPT !.calls = shown.calls \o ans.calls]
             ELSE IF \E i \in 0..(n - 1) : clicked = MoreKey(i)
             THEN LET i == CHOOSE i \in 0..(n - 1) : clicked = MoreKey(i)
                      sim == generate_similar_question(rs.questions[i + 1], w.topic,
                                                       rs.difficulty, content)
                  IN  [shown EXCEPT !.calls = shown.calls \o sim.calls,
                                    !.questions = Append(rs.questions, sim.value)]
             ELSE shown

\* lines 467-516: the worksheet, with two buttons per question
DisplaySection(rs, clicked, w, content) ==
    IF ~Running(rs) \/ rs.questions = << >> THEN rs
    ELSE LET n == Len(rs.questions)
             shown == [rs EXCEPT !.displayed = rs.displayed
                           \cup {AnswerKey(i) : i \in 0..(n - 1)}
                           \cup {MoreKey(i) : i \in 0..(n - 1)}]
         IN  IF \E i \in 0..(n - 1) : clicked = AnswerKey(i)
             THEN LET i == CHOOSE i \in 0..(n - 1) : clicked = AnswerKey(i)
                      ans == generate_answer(rs.questions[i + 1], w.topic, rs.difficulty, content)
                  IN  [shown EXCEPT !.calls = shown.calls \o ans.calls]
             ELSE IF \E i \in 0..(n - 1) : clicked = MoreKey(i)
             THEN LET i == CHOOSE i \in 0..(n - 1) : clicked = MoreKey(i)
                      sim == generate_similar_question(rs.questions[i + 1], w.topic,
                                                       rs.difficulty, content)
                  IN  [shown EXCEPT !.calls = shown.calls \o sim.calls]
             ELSE shown

\* The whole file, top to bottom.  `w` holds the values the widgets return in
\* this run, `clicked` is the one button that returns True in it (or the
\* widget that changed), `content` what the service replies if asked, `diff`
\* what random.choice returns if called.
Script(clicked, w, diff, content) ==
    \E generated \in {GenerateQuestionButton(RunStart, clicked, w, content)} :
    \E exam \in {ExamMoreLikeThisButton(generated, clicked, w, content)} :
    \E rendered \in {RenderSection(exam)} :
    \E worksheet \in {WorksheetSection(rendered, clicked, w, diff, content)} :
    \E rs \in {DisplaySection(worksheet, clicked, w, content)} :
        /\ exam_question' = rs.exam_question
        /\ questions' = rs.questions
        /\ difficulty' = rs.difficulty
        /\ produced_by' = rs.produced_by
        /\ calls' = rs.calls
        /\ exception' = rs.exception
        /\ displayed' = rs.displayed
        /\ exam_topic' = w.exam_topic
        /\ marks' = w.marks
        /\ topic' = w.topic
        /\ subtopics' = w.subtopics
        /\ UNCHANGED << similar_questions, fn_name, fn_text, fn_doc, fn_result >>

Widgets ==
    [exam_topic |-> exam_topic, marks |-> marks, topic |-> topic, subtopics |-> subtopics]

\* A click on a button the page shows.
GenerateQuestion ==
    /\ "Generate Question" \in displayed
    /\ \E content \in ExamReplies : Script("Generate Question", Widgets, "Easy", content)

ExamMoreLikeThis ==
    /\ "More Like This" \in displayed
    /\ \E content \in ExamReplies : Script("More Like This", Widgets, "Easy", content)

Easy ==
    /\ "Easy" \in displayed
    /\ \E content \in TextReplies : Script("Easy", Widgets, "Easy", content)

Medium ==
    /\ "Medium" \in displayed
    /\ \E content \in TextReplies : Script("Medium", Widgets, "Easy", content)

Hard ==
    /\ "Hard" \in displayed
    /\ \E content \in TextReplies : Script("Hard", Widgets, "Easy", content)

Random ==
    /\ "Random" \in displayed
    /\ \E content \in TextReplies, diff \in {"Easy", "Medium", "Hard"} :
           Script("Random", Widgets, diff, content)

Balanced ==
    /\ "Balanced" \in displayed
    /\ \E content \in TextReplies : Script("Balanced", Widgets, "Easy", content)

ExamStyle ==
    /\ "Exam Style" \in displayed
    /\ \E content \in TextReplies : Script("Exam Style", Widgets, "Easy", content)

ShowAnswer ==
    \E i \in 0..(Len(questions) - 1) :
        /\ AnswerKey(i) \in displayed
        /\ \E content \in TextReplies : Script(AnswerKey(i), Widgets, "Easy", content)

MoreLikeThis ==
    \E i \in 0..(Len(questions) - 1) :
        /\ MoreKey(i) \in displayed
        /\ \E content \in TextReplies : Script(MoreKey(i), Widgets, "Easy", content)

\* a new value picked in a widget the page shows: a run with no button clicked
SelectExamTopic ==
    /\ "Choose a topic:" \in displayed
    /\ \E t \in Leading(EXAM_TOPICS, MaxChoice) \ {exam_topic} :
           Script("Choose a topic:", [Widgets EXCEPT !.exam_topic = t], "Easy", << >>)

SelectMarks ==
    /\ "Total marks:" \in displayed
    /\ \E m \in {MARKS[i] : i \in 1..Len(MARKS)} \ {marks} :
           Script("Total marks:", [Widgets EXCEPT !.marks = m], "Easy", << >>)

\* the multiselect's options change with the topic, which resets it
SelectTopic ==
    /\ "topic" \in displayed
    /\ \E t \in Leading(TOPICS, MaxChoice) \ {topic} :
           Script("topic", [Widgets EXCEPT !.topic = t, !.subtopics = << >>], "Easy", << >>)

Selected == {subtopics[i] : i \in 1..Len(subtopics)}

\* one more subtopic picked, or one removed
SelectSubtopics ==
    /\ "subtopics" \in displayed
    /\ \E new \in {Append(subtopics, o) : o \in Leading(SUBTOPICS(topic), MaxSubtopics) \ Selected}
                   \cup {SelectSeq(subtopics, LAMBDA x : x # o) : o \in Selected} :
           Script("subtopics", [Widgets EXCEPT !.subtopics = new], "Easy", << >>)

Init ==
    /\ SessionInit
    /\ fn_name = "none"
    /\ fn_text = << >>
    /\ fn_doc = NotJson
    /\ fn_result = NoResult

Next ==
    \/ GenerateQuestion
    \/ ExamMoreLikeThis
    \/ Easy
    \/ Medium
    \/ Hard
    \/ Random
    \/ Balanced
    \/ ExamStyle
    \/ ShowAnswer
    \/ MoreLikeThis
    \/ SelectExamTopic
    \/ SelectMarks
    \/ SelectTopic
    \/ SelectSubtopics

Spec == Init /\ [][Next]_vars

\* =================================================================== claims
WorksheetFunctions ==
    {"generate_worksheet", "generate_balanced_worksheet", "generate_exam_style_worksheet"}
FreeTextFunctions == {"generate_answer", "generate_similar_question"}

\* The lines of a text, each the pair of the positions that delimit it: a
\* line lies strictly between two neighbouring newlines (or text ends).
LineBreaks(t) == {0, Len(t) + 1} \cup {i \in 1..Len(t) : t[i] = "\n"}
LinesOf(t) ==
    {L \in LineBreaks(t) \X LineBreaks(t) :
        L[1] < L[2] /\ ~ \E m \in LineBreaks(t) : L[1] < m /\ m < L[2]}
\* positions of the line's characters that are not whitespace
Ink(t, L) == {j \in (L[1] + 1)..(L[2] - 1) : t[j] \notin Whitespace}
NonBlankLines(t) == {L \in LinesOf(t) : Ink(t, L) # {}}
FirstOf(S) == CHOOSE x \in S : \A y \in S : x <= y
LastOf(S) == CHOOSE x \in S : \A y \in S : y <= x
TrimmedLine(t, L) == SubSeq(t, FirstOf(Ink(t, L)), LastOf(Ink(t, L)))
RankOf(t, L) == Cardinality({M \in NonBlankLines(t) : M[1] <= L[1]})

\* C3: every worksheet generator returns exactly the non-blank lines of the
\* completion text, each trimmed, in their order: as many items as there are
\* non-blank lines, the k-th item the k-th non-blank line without its leading
\* and trailing whitespace; a text of whitespace alone gives the empty list,
\* and no text makes the generator raise.
C3_WorksheetIsTrimmedNonBlankLines ==
    fn_name \in WorksheetFunctions =>
        /\ fn_result.kind = "return"
        /\ Len(fn_result.value) = Cardinality(NonBlankLines(fn_text))
        /\ \A L \in NonBlankLines(fn_text) :
               fn_result.value[RankOf(fn_text, L)] = TrimmedLine(fn_text, L)
        /\ (\A i \in 1..Len(fn_text) : fn_text[i] \in Whitespace) => fn_result.value = << >>

\* a worksheet of two items made from a text with a padded line
C3_Witness ==
    /\ fn_name = "generate_exam_style_worksheet"
    /\ Len(fn_result.value) = 2
    /\ \E i \in 1..Len(fn_text) : fn_text[i] = " "

\* C4 as stated: the free-text functions return the completion text with its
\* leading and trailing whitespace trimmed, and never raise.
C4_FreeTextIsTrimmed ==
    fn_name \in FreeTextFunctions =>
        fn_result.kind = "return" /\ fn_result.value = strip(fn_text)

\* C4 amended: the free-text functions return the completion text exactly as
\* the service gave it, leading and trailing whitespace included, and never
\* raise.
C4_FreeTextIsVerbatim ==
    fn_name \in FreeTextFunctions =>
        fn_result.kind = "return" /\ fn_result.value = fn_text

\* an answer whose completion text starts and ends with whitespace
C4_Witness ==
    /\ fn_name = "generate_answer"
    /\ Len(fn_text) >= 3
    /\ fn_text[1] \in Whitespace
    /\ fn_text[Len(fn_text)] \in Whitespace
    /\ fn_text[2] \notin Whitespace
    /\ fn_result.kind = "return"

\* the wire format of a structured question: an object with total_marks,
\* topic, difficulty and a list `parts` of objects with label, marks,
\* question and solution; other top-level fields may be present
IsQuestionPart(x) ==
    /\ x.t = "dict"
    /\ \A key \in {"label", "marks", "question", "solution"} : HasKey(x, key)
    /\ Get(x, "label").t = "str"
    /\ Get(x, "marks").t = "int"
    /\ Get(x, "question").t = "str"
    /\ Get(x, "solution").t = "str"

IsStructuredQuestion(x) ==
    /\ x.t = "dict"
    /\ \A key \in {"total_marks", "topic", "difficulty", "parts"} : HasKey(x, key)
    /\ Get(x, "total_marks").t = "int"
    /\ Get(x, "topic").t = "str"
    /\ Get(x, "difficulty").t = "str"
    /\ Get(x, "parts").t = "list"
    /\ \A i \in 1..Len(Get(x, "parts").xs) : IsQuestionPart(Get(x, "parts").xs[i])

\* C1: every value stored in st.session_state.exam_question is an object
\* with a `parts` list: a reply that is JSON but no such object makes
\* generate_exam_question fail, so that nothing else is ever stored.
C1_StoredQuestionHasPartsList ==
    exam_question # None =>
        /\ exam_question.t = "dict"
        /\ HasKey(exam_question, "parts")
        /\ Get(exam_question, "parts").t = "list"

\* C2 as stated: when the completion text is not JSON, generate_exam_question
\* raises, and the text after the message's fixed prefix is the completion
\* text exactly as the service returned it.
C2_FailureCarriesTextVerbatim ==
    (fn_name = "generate_exam_question" /\ fn_doc = NotJson) =>
        /\ fn_result.kind = "raise"
        /\ Tail(fn_result.value.msg) = fn_text

\* C2 amended: when the completion text, trimmed of leading and trailing
\* whitespace, is not JSON, generate_exam_question raises ValueError, and the
\* text after the message's fixed prefix is that trimmed text.
C2_FailureCarriesTrimmedText ==
    (fn_name = "generate_exam_question" /\ ~json_loads(strip(fn_text)).ok) =>
        /\ fn_result.kind = "raise"
        /\ fn_result.value.exc = "ValueError"
        /\ Head(fn_result.value.msg) = InvalidJsonPrefix
        /\ Tail(fn_result.value.msg) = strip(fn_text)

\* a failure on a text that has whitespace around it
C2_Witness ==
    /\ fn_name = "generate_exam_question"
    /\ fn_result.kind = "raise"
    /\ fn_text # << >>
    /\ Head(fn_text) \in Whitespace
    /\ strip(fn_text) # << >>

\* C5: a script run issues at most one completion request, whichever button
\* started it and also when the reply fails to parse.
C5_AtMostOneCallPerRun == Len(calls) <= 1

\* a run that ended in the parse failure, after its one request
C5_Witness == exception.exc = "ValueError" /\ Len(calls) = 1

\* C6: every request of a worksheet generator names at least one subtopic,
\* and every request for an exam question asks for 25, 50 or 75 marks.
C6_RequestsAreWellFormed ==
    \A k \in 1..Len(calls) :
        /\ calls[k].fn \in WorksheetFunctions => calls[k].subtopics # << >>
        /\ calls[k].fn = "generate_exam_question" => calls[k].marks \in {25, 50, 75}

\* C7: for every text that is the JSON text of a structured question, extra
\* top-level fields or not, generate_exam_question returns (no rejection) a
\* value with the same total_marks, topic, difficulty and parts list, and
\* serialising that value again gives the serialisation of the question.
C7_ParsePreservesQuestion ==
    (fn_name = "generate_exam_question" /\ IsStructuredQuestion(fn_doc)) =>
        /\ fn_result.kind = "return"
        /\ fn_result.value.t = "dict"
        /\ \A key \in {"total_marks", "topic", "difficulty", "parts"} :
               /\ HasKey(fn_result.value, key)
               /\ Get(fn_result.value, key) = Get(fn_doc, key)
        /\ json_dumps(fn_result.value, Default) = json_dumps(fn_doc, Default)

\* a two-part question with an extra field, returned from an indented text
C7_Witness ==
    /\ fn_name = "generate_exam_question"
    /\ IsStructuredQuestion(fn_doc)
    /\ HasKey(fn_doc, "note")
    /\ Len(Get(fn_doc, "parts").xs) = 2
    /\ Get(fn_doc, "parts").xs[1] # Get(fn_doc, "parts").xs[2]
    /\ \E i \in 1..Len(fn_text) : fn_text[i] = "\n"
    /\ fn_result.kind = "return"

\* C8: while the cached worksheet is non-empty, st.session_state.difficulty
\* names the mode whose handler stored it.
C8_DifficultyNamesProducer ==
    questions # << >> => difficulty = PyStr(produced_by)

\* C9: a run that ends in the parse failure of generate_exam_question leaves
\* st.session_state.exam_question as it was before the run.
C9_FailedGenerationKeepsQuestion ==
    [][exception'.exc = "ValueError" => exam_question' = exam_question]_vars

\* a failed More Like This with the earlier question still cached
C9_Witness == exception.exc = "ValueError" /\ exam_question = Q1

\* C10: a run started by a per-item Show Answer or More Like This (its
\* request is one of generate_answer / generate_similar_question) starts
\* from a non-empty worksheet and leaves questions, difficulty and
\* exam_question unchanged; and a run that changes `questions` is one whose
\* request came from a worksheet generator.
C10_PerItemActionsKeepCaches ==
    [][ /\ (calls' # << >> /\ calls'[1].fn \in FreeTextFunctions) =>
              /\ questions # << >>
              /\ questions' = questions
              /\ difficulty' = difficulty
              /\ exam_question' = exam_question
        /\ questions' # questions =>
              (calls' # << >> /\ calls'[1].fn \in WorksheetFunctions) ]_vars

\* More Like This on an item, with a worksheet and an exam question cached
C10_Witness ==
    /\ calls # << >>
    /\ calls[1].fn = "generate_similar_question"
    /\ questions # << >>
    /\ exam_question = Q1

====
